---- MODULE Spec2Model ----
(***************************************************************************)
(* graphql-to-jddf: a GraphQL introspection document read from standard    *)
(* input is built into GraphQLType nodes (from_schema, from_full_type,     *)
(* from_type_ref .. from_type_ref8) and translated into a JDDF schema      *)
(* (into_jddf), which main writes to standard output.                      *)
(*                                                                         *)
(* A Rust panic (unreachable!(), Option::unwrap on None) aborts the        *)
(* process; the pure functions below return Panic / SchemaPanic for it and *)
(* every caller propagates it, as unwinding does.                          *)
(***************************************************************************)
EXTENDS Integers, Sequences, FiniteSets, TLC

VARIABLES
    pc,         \* position of the running function
    doc,        \* main: the document deserialized from standard input
    nodes,      \* main: the GraphQLType nodes the for loop has yet to consume
    defs,       \* main: the defs HashMap, type name -> jddf schema
    out,        \* main: what was printed to standard output (None: nothing)
    type_ref,   \* from_type_ref: its argument, a type-ref chain
    full_type,  \* from_full_type: its argument, a type descriptor
    gql_type,   \* the GraphQLType built last / the self of the into_jddf call
    schema      \* the jddf schema into_jddf returned

vars == <<pc, doc, nodes, defs, out, type_ref, full_type, gql_type, schema>>

(***************************************************************************)
(* Option<T>: None is the empty sequence, Some(x) the one-element one.     *)
(***************************************************************************)
None == <<>>
Some(x) == <<x>>
is_some(o) == o # <<>>
unwrap(o) == o[1]

Range(s) == {s[i] : i \in 1..Len(s)}

(***************************************************************************)
(* enum GraphQLType                                                        *)
(***************************************************************************)
Ref(name) == [tag |-> "Ref", name |-> name]
Scalar(name) == [tag |-> "Scalar", name |-> name]
Object(name, fields) == [tag |-> "Object", name |-> name, fields |-> fields]
Interface(name, impls) == [tag |-> "Interface", name |-> name, impls |-> impls]
Union(name, types) == [tag |-> "Union", name |-> name, types |-> types]
Enum(name, values) == [tag |-> "Enum", name |-> name, values |-> values]
Input(name, fields) == [tag |-> "Input", name |-> name, fields |-> fields]
NonNull(inner) == [tag |-> "NonNull", inner |-> inner]
List(inner) == [tag |-> "List", inner |-> inner]

\* The outcome of a builder call that hit unreachable!().
Panic == [tag |-> "Panic"]
IsPanic(t) == t.tag = "Panic"

(***************************************************************************)
(* jddf::Schema::from_parts(None, Box::new(form), HashMap::new()): a       *)
(* schema without definitions is determined by its form.                   *)
(***************************************************************************)
FormRef(name) == [form |-> "Ref", name |-> name]
FormType(t) == [form |-> "Type", type |-> t]
FormEmpty == [form |-> "Empty"]
FormElements(s) == [form |-> "Elements", schema |-> s]
FormEnum(values) == [form |-> "Enum", values |-> values]
FormProperties(required, optional) ==
    [form |-> "Properties", required |-> required, optional |-> optional,
     allow_additional |-> FALSE, has_required |-> TRUE]

\* The outcome of an into_jddf call that hit unreachable!().
SchemaPanic == [form |-> "Panic"]
IsSchemaPanic(s) == s.form = "Panic"

(***************************************************************************)
(* Type-ref chains.  A chain is the sequence of its links, outermost       *)
(* first; a link's of_type is Some exactly when a link follows it.  The    *)
(* deserialized types TypeRef, TypeRefOfType, ... have eight levels, the   *)
(* eighth without an of_type field: from_type_ref8 never looks past its    *)
(* own link, and whatever the input nests deeper is dropped on reading.    *)
(***************************************************************************)
of_type(chain) == IF Len(chain) > 1 THEN Some(Tail(chain)) ELSE None

from_type_ref8_Truncating(chain) ==
    IF is_some(chain[1].name) THEN Ref(unwrap(chain[1].name))
    ELSE Ref(chain[1].kind)

from_type_ref8(chain) ==
    IF is_some(chain[1].name) THEN Ref(unwrap(chain[1].name))
    ELSE Panic

\* from_type_ref (level 1), from_type_ref2, ..., from_type_ref7: the same three
\* arms at every level, the wrapper arms calling the next level's function.
RECURSIVE from_type_ref_level(_, _)
from_type_ref_level(chain, level) ==
    IF level = 8 THEN from_type_ref8(chain)
    ELSE IF is_some(chain[1].name) THEN Ref(unwrap(chain[1].name))
    ELSE IF chain[1].kind \in {"NON_NULL", "LIST"} /\ is_some(of_type(chain))
    THEN LET r == from_type_ref_level(unwrap(of_type(chain)), level + 1)
         IN  IF IsPanic(r) THEN Panic
             ELSE IF chain[1].kind = "NON_NULL" THEN NonNull(r)
             ELSE List(r)
    ELSE Panic

from_type_ref(chain) == from_type_ref_level(chain, 1)

(***************************************************************************)
(* from_full_type.  A descriptor (FullType) is a record of its kind and    *)
(* its optional name, fields, possible_types, enum_values, input_fields.   *)
(* A field is [name, type_]; an input field is flattened the same way.     *)
(***************************************************************************)

\* fields.into_iter().map(|f| (f.name, from_type_ref(..))).collect() into a
\* HashMap: every chain is resolved, a later duplicate key replaces an earlier.
collect_fields(fs) ==
    LET resolved == [i \in 1..Len(fs) |-> from_type_ref(fs[i].type_)]
        last(n) == CHOOSE i \in 1..Len(fs) :
                      /\ fs[i].name = n
                      /\ \A j \in 1..Len(fs) : fs[j].name = n => j <= i
    IN  IF \E i \in 1..Len(fs) : IsPanic(resolved[i])
        THEN Panic
        ELSE [tag |-> "Fields",
              map |-> [n \in {fs[i].name : i \in 1..Len(fs)} |-> resolved[last(n)]]]

collect_possible_types_RefOnly(ps) ==
    LET resolved == [i \in 1..Len(ps) |-> from_type_ref(ps[i])]
    IN  IF \E i \in 1..Len(ps) : resolved[i].tag # "Ref"
        THEN Panic
        ELSE [tag |-> "Types", seq |-> resolved]

\* possible_types.into_iter().map(|t| from_type_ref(t.type_ref)).collect()
collect_possible_types(ps) ==
    LET resolved == [i \in 1..Len(ps) |-> from_type_ref(ps[i])]
    IN  IF \E i \in 1..Len(ps) : IsPanic(resolved[i])
        THEN Panic
        ELSE [tag |-> "Types", seq |-> resolved]

from_full_type(ft) ==
    IF ft.kind = "SCALAR" /\ is_some(ft.name)
    THEN Scalar(unwrap(ft.name))
    ELSE IF ft.kind = "OBJECT" /\ is_some(ft.name) /\ is_some(ft.fields)
    THEN LET c == collect_fields(unwrap(ft.fields))
         IN  IF IsPanic(c) THEN Panic ELSE Object(unwrap(ft.name), c.map)
    ELSE IF ft.kind = "INTERFACE" /\ is_some(ft.name) /\ is_some(ft.possible_types)
    THEN LET c == collect_possible_types(unwrap(ft.possible_types))
         IN  IF IsPanic(c) THEN Panic ELSE Interface(unwrap(ft.name), c.seq)
    ELSE IF ft.kind = "UNION" /\ is_some(ft.name) /\ is_some(ft.possible_types)
    THEN LET c == collect_possible_types(unwrap(ft.possible_types))
         IN  IF IsPanic(c) THEN Panic ELSE Union(unwrap(ft.name), c.seq)
    ELSE IF ft.kind = "ENUM" /\ is_some(ft.name) /\ is_some(ft.enum_values)
    THEN Enum(unwrap(ft.name), unwrap(ft.enum_values))
    ELSE IF ft.kind = "INPUT_OBJECT" /\ is_some(ft.name) /\ is_some(ft.input_fields)
    THEN LET c == collect_fields(unwrap(ft.input_fields))
         IN  IF IsPanic(c) THEN Panic ELSE Input(unwrap(ft.name), c.map)
    ELSE Panic

\* schema.types.into_iter().map(|t| from_full_type(t.full_type)).collect()
from_schema(types) ==
    LET built == [i \in 1..Len(types) |-> from_full_type(types[i])]
    IN  IF \E i \in 1..Len(types) : IsPanic(built[i])
        THEN Panic
        ELSE [tag |-> "Nodes", seq |-> built]

(***************************************************************************)
(* into_jddf, one operator per match arm.                                  *)
(***************************************************************************)
RECURSIVE into_jddf(_)

into_jddf_Ref_Inlined(name) ==
    IF name \in {"String", "ID"} THEN FormType("string") ELSE FormRef(name)

into_jddf_Ref(name) == FormRef(name)

into_jddf_Scalar_NoID(scalar) ==
    CASE scalar = "Int" -> FormType("int32")
      [] scalar = "Float" -> FormType("float64")
      [] scalar = "Boolean" -> FormType("boolean")
      [] scalar = "String" -> FormType("string")
      [] OTHER -> FormEmpty

into_jddf_Scalar(scalar) ==
    CASE scalar = "Int" -> FormType("int32")
      [] scalar = "Float" -> FormType("float64")
      [] scalar = "Boolean" -> FormType("boolean")
      [] scalar \in {"String", "ID"} -> FormType("string")
      [] OTHER -> FormEmpty

\* The Object and the Input arm: the same loop over the fields.
into_jddf_Fields(fields) ==
    LET req == {n \in DOMAIN fields : fields[n].tag = "NonNull"}
        opt == DOMAIN fields \ req
        required == [n \in req |-> into_jddf(fields[n].inner)]
        optional == [n \in opt |-> into_jddf(fields[n])]
    IN  IF \/ \E n \in req : IsSchemaPanic(required[n])
           \/ \E n \in opt : IsSchemaPanic(optional[n])
        THEN SchemaPanic
        ELSE FormProperties(required, optional)

into_jddf_List_Eager(inner) ==
    LET item == into_jddf(IF inner.tag = "NonNull" THEN inner.inner ELSE inner)
    IN  IF IsSchemaPanic(item) THEN SchemaPanic ELSE FormElements(item)

into_jddf_List(inner) ==
    IF inner.tag = "NonNull"
    THEN LET item == into_jddf(inner.inner)
         IN  IF IsSchemaPanic(item) THEN SchemaPanic ELSE FormElements(item)
    ELSE FormElements(FormEmpty)

into_jddf_Interface_Elements(members) ==
    IF members = <<>> THEN FormEmpty ELSE FormElements(FormEmpty)

\* The Interface and the Union arm: the members are not looked at.
into_jddf_Interface(members) == FormEmpty

into_jddf_Enum(values) == FormEnum(Range(values))

into_jddf(self) ==
    CASE self.tag = "Ref" -> into_jddf_Ref(self.name)
      [] self.tag = "Scalar" -> into_jddf_Scalar(self.name)
      [] self.tag = "Object" -> into_jddf_Fields(self.fields)
      [] self.tag = "List" -> into_jddf_List(self.inner)
      [] self.tag = "Interface" -> into_jddf_Interface(self.impls)
      [] self.tag = "Union" -> into_jddf_Interface(self.types)
      [] self.tag = "Enum" -> into_jddf_Enum(self.values)
      [] self.tag = "Input" -> into_jddf_Fields(self.fields)
      [] OTHER -> SchemaPanic

\* The GraphQLType values on which into_jddf(self) calls into_jddf itself.
callees(self) ==
    CASE self.tag \in {"Object", "Input"} ->
           {IF self.fields[n].tag = "NonNull" THEN self.fields[n].inner
            ELSE self.fields[n] : n \in DOMAIN self.fields}
      [] self.tag = "List" ->
           IF self.inner.tag = "NonNull" THEN {self.inner.inner} ELSE {}
      [] OTHER -> {}

(***************************************************************************)
(* Bounds of the inputs.                                                   *)
(***************************************************************************)
\* Most wrapper links of a chain handed to from_type_ref alone.
MaxWrappers == 9
\* Most wrapper links around a field's type in a descriptor.
MaxFieldWrappers == 3
\* Most wrapper links around a possible type of an interface or a union.
MaxMemberWrappers == 1
\* Most fields, and most possible types, of one descriptor.
MaxFields == 2
\* Most type descriptors of a document.
MaxTypes == 2

(***************************************************************************)
(* The inputs: links, chains, descriptors, documents.                      *)
(***************************************************************************)
NonNullLink == [kind |-> "NON_NULL", name |-> None]
ListLink == [kind |-> "LIST", name |-> None]
NamedLink(n) ==
    [kind |-> IF n \in {"Int", "Float", "Boolean", "String", "ID"}
              THEN "SCALAR" ELSE "OBJECT",
     name |-> Some(n)]
\* Links no introspection response holds: a named wrapper, a nameless type.
NamedWrapperLink == [kind |-> "NON_NULL", name |-> Some("String")]
NamelessLink == [kind |-> "OBJECT", name |-> None]

WrapperSeqs(max) == UNION {[1..k -> {NonNullLink, ListLink}] : k \in 0..max}

\* k wrapper links, then a named link, a malformed link, or nothing (the last
\* wrapper has no of_type).
RefChains ==
    {ws \o t : ws \in WrapperSeqs(MaxWrappers),
               t \in {<<NamedLink("String")>>, <<NamedLink("Query")>>,
                      <<NamedWrapperLink>>, <<NamelessLink>>, <<>>}} \ {<<>>}

\* [[String!!]]: a list of lists of doubly non-null items.
ListOfListChain ==
    <<ListLink, ListLink, NonNullLink, NonNullLink, NamedLink("String")>>

FieldChains ==
    {ws \o <<NamedLink("String")>> : ws \in WrapperSeqs(MaxFieldWrappers)}
    \cup {<<NonNullLink>>, ListOfListChain}

MemberChains ==
    {ws \o <<NamedLink("Query")>> : ws \in WrapperSeqs(MaxMemberWrappers)}
    \cup {<<ListLink>>}

FieldNames == <<"id", "tags", "extra">>

\* The field list whose i-th field has the i-th name and the chain c[i].
FieldList(c) == [i \in 1..Len(c) |-> [name |-> FieldNames[i], type_ |-> c[i]]]

FullType(kind, name, fields, possible_types, enum_values, input_fields) ==
    [kind |-> kind, name |-> name, fields |-> fields,
     possible_types |-> possible_types, enum_values |-> enum_values,
     input_fields |-> input_fields]

ScalarNames == {"Int", "Float", "Boolean", "String", "ID", "DateTime", "Query"}

\* Descriptors no from_full_type arm matches.
MalformedTypes ==
    {FullType("OBJECT", Some("Query"), None, None, None, None),
     FullType("OBJECT", None, Some(<<>>), None, None, None),
     FullType("INTERFACE", Some("Query"), None, None, None, None),
     FullType("LIST", None, None, None, None, None)}

EnumTypes ==
    {FullType("ENUM", Some("Color"), None, None, Some(vs), None) :
        vs \in {<<>>, <<"RED", "GREEN", "BLUE">>, <<"RED", "RED">>}}

ScalarTypes ==
    {FullType("SCALAR", Some(n), None, None, None, None) : n \in ScalarNames}

\* The descriptors handed to from_full_type alone: a scalar, an enum, a
\* malformed one, an object or input object of up to MaxFields fields, an
\* interface or union of up to MaxFields possible types.
IsFullType(ft) ==
    \/ ft \in ScalarTypes \cup EnumTypes \cup MalformedTypes
    \/ \E k \in 0..MaxFields : \E c \in [1..k -> FieldChains] :
          \/ ft = FullType("OBJECT", Some("Query"), Some(FieldList(c)),
                           None, None, None)
          \/ ft = FullType("INPUT_OBJECT", Some("Query"), None, None, None,
                           Some(FieldList(c)))
    \/ \E k \in 0..MaxFields : \E ps \in [1..k -> MemberChains] :
          \E kind \in {"INTERFACE", "UNION"} :
             ft = FullType(kind, Some("Node"), None, Some(ps), None, None)

DeepChain == [i \in 1..8 |-> NonNullLink] \o <<NamedLink("String")>>

IdField(c) == [name |-> "id", type_ |-> c]
TagsField == [name |-> "tags", type_ |-> <<ListLink, NamedLink("Int")>>]

\* The field lists of the descriptors of a whole document.
DocFieldLists ==
    {<<IdField(c)>> :
        c \in {<<NamedLink("String")>>,
               <<NonNullLink, NonNullLink, NamedLink("String")>>,
               <<NonNullLink>>, DeepChain}}
    \cup {<<IdField(<<NonNullLink, NamedLink("String")>>), TagsField>>}

\* The possible-types lists of the descriptors of a whole document.
DocMemberLists ==
    {<<>>, <<<<NamedLink("Query")>>>>, <<<<NonNullLink, NamedLink("Query")>>>>,
     <<<<NamedLink("Query")>>, <<ListLink, NonNullLink, NamedLink("Filter")>>>>}

\* The descriptors of a whole document.
DocTypes ==
    {FullType("SCALAR", Some(n), None, None, None, None) : n \in {"Query", "String"}}
    \cup {FullType("OBJECT", Some("Query"), Some(fs), None, None, None) :
            fs \in DocFieldLists}
    \cup {FullType("INPUT_OBJECT", Some("Filter"), None, None, None, Some(fs)) :
            fs \in DocFieldLists}
    \cup {FullType(k, Some("Query"), None, Some(ps), None, None) :
            k \in {"INTERFACE", "UNION"}, ps \in DocMemberLists}
    \cup {FullType("ENUM", Some("Query"), None, None, Some(<<"RED", "GREEN">>), None),
          FullType("OBJECT", Some("Query"), None, None, None, None)}

\* Response { data: Option { schema: Option { query_type: { name: Option },
\* types } } }; json is whether serde_json could deserialize the input at all.
Document(json, data, sch, root_name, types) ==
    [json |-> json, data |-> data, schema |-> sch, root_name |-> root_name,
     types |-> types]

\* The documents on standard input: no JSON of the expected shape, no data,
\* no schema, or a schema of up to MaxTypes descriptors with or without the
\* root query type's name.
IsDocument(d) ==
    \/ d \in {Document(FALSE, FALSE, FALSE, None, <<>>),
               Document(TRUE, FALSE, FALSE, None, <<>>),
               Document(TRUE, TRUE, FALSE, None, <<>>)}
    \/ \E k \in 0..MaxTypes : \E ts \in [1..k -> DocTypes] :
          \E r \in {None, Some("Query")} :
             d = Document(TRUE, TRUE, TRUE, r, ts)

NoDocument == Document(FALSE, FALSE, FALSE, None, <<>>)
NoFullType == FullType("NONE", None, None, None, None, None)
NoType == [tag |-> "None"]
NoSchema == [form |-> "None"]
NoDefs == [n \in {} |-> NoSchema]

(***************************************************************************)
(* main                                                                    *)
(***************************************************************************)
Init ==
    /\ pc = "main"
    /\ doc = NoDocument
    /\ nodes = <<>>
    /\ defs = NoDefs
    /\ out = None
    /\ type_ref = <<>>
    /\ full_type = NoFullType
    /\ gql_type = NoType
    /\ schema = NoSchema

\* serde_json::from_reader(std::io::stdin())?
ReadStdin ==
    /\ pc = "main"
    /\ IsDocument(doc')
    /\ pc' = IF doc'.json THEN "envelope" ELSE "error_json"
    /\ UNCHANGED <<nodes, defs, out, type_ref, full_type, gql_type, schema>>

\* .data.ok_or(..)?.schema.ok_or(..)?; root_name = query_type.name.clone();
\* defs = HashMap::new()
Envelope ==
    /\ pc = "envelope"
    /\ pc' = IF ~doc.data THEN "error_no_data"
             ELSE IF ~doc.schema THEN "error_no_schema"
             ELSE "from_schema"
    /\ defs' = NoDefs
    /\ UNCHANGED <<doc, nodes, out, type_ref, full_type, gql_type, schema>>

\* GraphQLType::from_schema(graphql_schema): the whole Vec is collected before
\* the loop body runs once.
FromSchema ==
    /\ pc = "from_schema"
    /\ LET built == from_schema(doc.types)
       IN  IF IsPanic(built)
           THEN /\ pc' = "panic_from_full_type"
                /\ nodes' = <<>>
           ELSE /\ pc' = "loop"
                /\ nodes' = built.seq
    /\ UNCHANGED <<doc, defs, out, type_ref, full_type, gql_type, schema>>

LoopBody_KeepFirst ==
    /\ pc = "loop"
    /\ nodes # <<>>
    /\ LET gql_schema == Head(nodes)
           translated == into_jddf(gql_schema)
       IN  /\ gql_type' = gql_schema
           /\ schema' = translated
           /\ IF gql_schema.tag \notin
                   {"Object", "Interface", "Union", "Enum", "Input", "Scalar"}
              THEN /\ pc' = "panic_main_unreachable"
                   /\ UNCHANGED defs
              ELSE IF IsSchemaPanic(translated)
              THEN /\ pc' = "panic_into_jddf"
                   /\ UNCHANGED defs
              ELSE /\ pc' = "loop"
                   /\ defs' = [n \in DOMAIN defs \cup {gql_schema.name} |->
                                 IF n \in DOMAIN defs THEN defs[n] ELSE translated]
    /\ nodes' = Tail(nodes)
    /\ UNCHANGED <<doc, out, type_ref, full_type>>

\* One iteration of the for loop: the name match, into_jddf, defs.insert.
LoopBody ==
    /\ pc = "loop"
    /\ nodes # <<>>
    /\ LET gql_schema == Head(nodes)
           translated == into_jddf(gql_schema)
       IN  /\ gql_type' = gql_schema
           /\ schema' = translated
           /\ IF gql_schema.tag \notin
                   {"Object", "Interface", "Union", "Enum", "Input", "Scalar"}
              THEN /\ pc' = "panic_main_unreachable"
                   /\ UNCHANGED defs
              ELSE IF IsSchemaPanic(translated)
              THEN /\ pc' = "panic_into_jddf"
                   /\ UNCHANGED defs
              ELSE /\ pc' = "loop"
                   /\ defs' = [n \in DOMAIN defs \cup {gql_schema.name} |->
                                 IF n = gql_schema.name THEN translated ELSE defs[n]]
    /\ nodes' = Tail(nodes)
    /\ UNCHANGED <<doc, out, type_ref, full_type>>

Emit_NoRootCheck ==
    /\ pc = "loop"
    /\ nodes = <<>>
    /\ pc' = "done"
    /\ out' = Some([definitions |-> defs,
                    form |-> FormRef(IF is_some(doc.root_name)
                                     THEN unwrap(doc.root_name) ELSE "")])
    /\ UNCHANGED <<doc, nodes, defs, type_ref, full_type, gql_type, schema>>

\* After the loop: Schema::from_parts(Some(defs), Ref(root_name.unwrap()), ..)
\* and println!.
Emit ==
    /\ pc = "loop"
    /\ nodes = <<>>
    /\ IF is_some(doc.root_name)
       THEN /\ pc' = "done"
            /\ out' = Some([definitions |-> defs,
                            form |-> FormRef(unwrap(doc.root_name))])
       ELSE /\ pc' = "panic_unwrap"
            /\ UNCHANGED out
    /\ UNCHANGED <<doc, nodes, defs, type_ref, full_type, gql_type, schema>>

Next == ReadStdin \/ Envelope \/ FromSchema \/ LoopBody \/ Emit

Spec == Init /\ [][Next]_vars

(***************************************************************************)
(* from_type_ref on one chain.                                             *)
(***************************************************************************)
InitTypeRef ==
    /\ pc = "from_type_ref"
    /\ type_ref \in RefChains
    /\ doc = NoDocument
    /\ nodes = <<>>
    /\ defs = NoDefs
    /\ out = None
    /\ full_type = NoFullType
    /\ gql_type = NoType
    /\ schema = NoSchema

FromTypeRef ==
    /\ pc = "from_type_ref"
    /\ gql_type' = from_type_ref(type_ref)
    /\ pc' = IF IsPanic(gql_type') THEN "panic_from_type_ref" ELSE "resolved"
    /\ UNCHANGED <<doc, nodes, defs, out, type_ref, full_type, schema>>

NextTypeRef == FromTypeRef

SpecTypeRef == InitTypeRef /\ [][NextTypeRef]_vars

(***************************************************************************)
(* from_full_type on one descriptor, then into_jddf on the node and, as    *)
(* into_jddf calls itself, on the types nested in it.                      *)
(***************************************************************************)
InitType ==
    /\ pc = "from_full_type"
    /\ IsFullType(full_type)
    /\ doc = NoDocument
    /\ nodes = <<>>
    /\ defs = NoDefs
    /\ out = None
    /\ type_ref = <<>>
    /\ gql_type = NoType
    /\ schema = NoSchema

\* from_full_type takes the descriptor by value.
FromFullType ==
    /\ pc = "from_full_type"
    /\ gql_type' = from_full_type(full_type)
    /\ pc' = IF IsPanic(gql_type') THEN "panic_from_full_type" ELSE "into_jddf"
    /\ full_type' = NoFullType
    /\ UNCHANGED <<doc, nodes, defs, out, type_ref, schema>>

\* into_jddf(self) calls into_jddf on a nested type.
Recurse ==
    /\ pc = "into_jddf"
    /\ \E t \in callees(gql_type) : gql_type' = t
    /\ UNCHANGED <<pc, doc, nodes, defs, out, type_ref, full_type, schema>>

\* The call into_jddf(self) runs to its end.
IntoJddf ==
    /\ pc = "into_jddf"
    /\ schema' = into_jddf(gql_type)
    /\ pc' = IF IsSchemaPanic(schema') THEN "panic_into_jddf" ELSE "returned"
    /\ UNCHANGED <<doc, nodes, defs, out, type_ref, full_type, gql_type>>

NextType == FromFullType \/ Recurse \/ IntoJddf

SpecType == InitType /\ [][NextType]_vars

(***************************************************************************)
(* Properties of main.                                                     *)
(***************************************************************************)
Terminal ==
    {"done", "error_json", "error_no_data", "error_no_schema",
     "panic_from_full_type", "panic_into_jddf", "panic_main_unreachable",
     "panic_unwrap"}

EnvelopeOk(d) == d.json /\ d.data /\ d.schema /\ is_some(d.root_name)

AllBuilt(d) == \A i \in 1..Len(d.types) : ~IsPanic(from_full_type(d.types[i]))

AllTranslated(d) ==
    \A i \in 1..Len(d.types) :
        ~IsSchemaPanic(into_jddf(from_full_type(d.types[i])))

\* The index of the last descriptor of the list that carries the name n.
LastNamed(types, n) ==
    CHOOSE i \in 1..Len(types) :
        /\ types[i].name = Some(n)
        /\ \A j \in 1..Len(types) : types[j].name = Some(n) => j <= i

QueryType ==
    FullType("OBJECT", Some("Query"),
             Some(<<IdField(<<NonNullLink, NamedLink("String")>>), TagsField>>),
             None, None, None)

\* The document of the end-to-end scenario: the root query type is Query, and
\* the one descriptor named Query is the OBJECT with the fields id and tags.
Scenario(d) ==
    /\ d.json /\ d.data /\ d.schema
    /\ d.root_name = Some("Query")
    /\ \E i \in 1..Len(d.types) : d.types[i] = QueryType
    /\ \A i \in 1..Len(d.types) :
          d.types[i].name = Some("Query") => d.types[i] = QueryType

\* C1, as stated: in the scenario, the schema main writes maps Query to a
\* properties fragment with required = {id: type string}, optional = {tags: an
\* elements fragment}, allow_additional = false, and its root form is
\* ref("Query").
C1_Original ==
    (pc = "done" /\ Scenario(doc)) =>
        LET q == unwrap(out).definitions["Query"]
        IN  /\ q.form = "Properties"
            /\ q.required = [n \in {"id"} |-> FormType("string")]
            /\ DOMAIN q.optional = {"tags"}
            /\ q.optional["tags"].form = "Elements"
            /\ q.allow_additional = FALSE
            /\ unwrap(out).form = FormRef("Query")

\* C1, amended: in the scenario, the schema main writes maps Query to a
\* properties fragment with required = {id: ref("String")}, optional =
\* {tags: elements(empty)}, allow_additional = false, and its root form is
\* ref("Query"); when the Query descriptor is the whole type list, main does
\* write the schema.
C1_Amended ==
    Scenario(doc) =>
        /\ pc = "done" =>
             /\ unwrap(out).definitions["Query"] =
                  [form |-> "Properties",
                   required |-> [n \in {"id"} |-> FormRef("String")],
                   optional |-> [n \in {"tags"} |-> FormElements(FormEmpty)],
                   allow_additional |-> FALSE, has_required |-> TRUE]
             /\ unwrap(out).form = FormRef("Query")
        /\ doc.types = <<QueryType>> =>
             pc \in {"envelope", "from_schema", "loop", "done"}

C1_Witness ==
    /\ pc = "done"
    /\ Scenario(doc)
    /\ "Query" \in DOMAIN unwrap(out).definitions

\* C4: the schema is written if and only if the envelope has data, schema and
\* a root name and every descriptor was built and translated without a panic;
\* every other run ends in an error state with nothing written.
C4_AllOrNothing ==
    /\ out # None => pc = "done"
    /\ pc \in Terminal =>
         ((out # None) <=> (EnvelopeOk(doc) /\ AllBuilt(doc) /\ AllTranslated(doc)))
    /\ pc \in Terminal \ {"done"} => out = None

C4_Witness ==
    /\ pc = "panic_into_jddf"
    /\ DOMAIN defs # {}
    /\ out = None

\* C6: whenever the loop has just handled an Interface or a Union node, the
\* translation did not panic and the definitions mapping holds the empty form
\* under the node's name, whatever the node's members are.
C6_InterfaceUnionEmpty ==
    (pc \in Terminal \cup {"loop"} /\ gql_type.tag \in {"Interface", "Union"}) =>
        /\ pc # "panic_into_jddf"
        /\ schema = FormEmpty
        /\ gql_type.name \in DOMAIN defs
        /\ defs[gql_type.name] = FormEmpty

C6_Witness ==
    /\ pc = "loop"
    /\ gql_type.tag = "Interface"
    /\ Len(gql_type.impls) = 2
    /\ gql_type.impls[2].tag = "List"
    /\ defs[gql_type.name] = FormEmpty

\* C8: when main is done, the definitions mapping has exactly one entry per
\* distinct descriptor name, the translation of the last descriptor carrying
\* that name; and a run whose every descriptor builds and translates never ends
\* in an error because of a repeated name.
C8_LastWriteWins ==
    /\ pc = "done" =>
         LET ds == unwrap(out).definitions
         IN  /\ DOMAIN ds = {unwrap(doc.types[i].name) : i \in 1..Len(doc.types)}
             /\ \A n \in DOMAIN ds :
                   ds[n] = into_jddf(from_full_type(doc.types[LastNamed(doc.types, n)]))
    /\ (pc \in Terminal /\ EnvelopeOk(doc) /\ AllBuilt(doc) /\ AllTranslated(doc)) =>
         pc = "done"

C8_Witness ==
    /\ pc = "done"
    /\ Len(doc.types) = 2
    /\ doc.types[1].name = doc.types[2].name
    /\ into_jddf(from_full_type(doc.types[1])) # into_jddf(from_full_type(doc.types[2]))
    /\ unwrap(out).definitions["Query"] = into_jddf(from_full_type(doc.types[2]))

\* C10, as stated: every node of a type list the builder accepts is a Scalar,
\* Object, Interface, Union, Enum or Input, and translating the nodes never
\* reaches an unreachable!() arm.
C10_Claim ==
    (pc \in {"loop", "done", "panic_into_jddf", "panic_main_unreachable",
             "panic_unwrap"}) =>
        /\ \A t \in Range(from_schema(doc.types).seq) :
              t.tag \in {"Scalar", "Object", "Interface", "Union", "Enum", "Input"}
        /\ pc \notin {"panic_into_jddf", "panic_main_unreachable"}

(***************************************************************************)
(* Properties of from_type_ref.                                            *)
(***************************************************************************)
\* The chain is k wrapper links without a name, then one link with a name.
WrappersThenName(chain, k) ==
    /\ Len(chain) = k + 1
    /\ \A i \in 1..k : chain[i] \in {NonNullLink, ListLink}
    /\ is_some(chain[k + 1].name)

RECURSIVE WrapperTags(_)
WrapperTags(t) ==
    IF t.tag \in {"NonNull", "List"} THEN <<t.tag>> \o WrapperTags(t.inner)
    ELSE <<>>

RECURSIVE Innermost(_)
Innermost(t) == IF t.tag \in {"NonNull", "List"} THEN Innermost(t.inner) ELSE t

\* The node is Ref(the chain's name) in the chain's k wrappers, in its order.
Mirrors(t, chain, k) ==
    /\ WrapperTags(t) =
          [i \in 1..k |-> IF chain[i].kind = "NON_NULL" THEN "NonNull" ELSE "List"]
    /\ Innermost(t) = Ref(unwrap(chain[k + 1].name))

\* C3, as stated: k wrapper links and a named link resolve, for 0 <= k <= 8, to
\* the Ref in the same k wrappers; deeper chains are rejected.
C3_Original ==
    \A k \in 0..MaxWrappers :
        (pc # "from_type_ref" /\ WrappersThenName(type_ref, k)) =>
            IF k <= 8 THEN pc = "resolved" /\ Mirrors(gql_type, type_ref, k)
            ELSE pc = "panic_from_type_ref"

\* C3, amended: k wrapper links and a named link resolve, for 0 <= k <= 7, to
\* the Ref in the same k wrappers in the same order; a chain of 8 or more
\* wrapper links is rejected with a panic and yields no result.
C3_Amended ==
    \A k \in 0..MaxWrappers :
        (pc # "from_type_ref" /\ WrappersThenName(type_ref, k)) =>
            IF k <= 7 THEN pc = "resolved" /\ Mirrors(gql_type, type_ref, k)
            ELSE pc = "panic_from_type_ref" /\ IsPanic(gql_type)

C3_Witness ==
    /\ pc = "resolved"
    /\ WrappersThenName(type_ref, 7)
    /\ WrapperTags(gql_type) =
          <<"NonNull", "List", "NonNull", "List", "List", "NonNull", "List">>

(***************************************************************************)
(* Properties of from_full_type and into_jddf.                             *)
(***************************************************************************)
ExactlyOneNonNull(t) == t.tag = "NonNull" /\ t.inner.tag # "NonNull"

\* C2, as stated: into_jddf of an Object or Input node returns a properties
\* fragment, allow_additional = false, the fields in exactly one NonNull keys of
\* required, all others keys of optional, the key sets disjoint and together the
\* node's field names.
C2_Claim ==
    (pc \in {"returned", "panic_into_jddf"} /\ gql_type.tag \in {"Object", "Input"}) =>
        /\ schema.form = "Properties"
        /\ schema.allow_additional = FALSE
        /\ \A n \in DOMAIN gql_type.fields :
              IF ExactlyOneNonNull(gql_type.fields[n])
              THEN n \in DOMAIN schema.required
              ELSE n \in DOMAIN schema.optional
        /\ DOMAIN schema.required \cap DOMAIN schema.optional = {}
        /\ DOMAIN schema.required \cup DOMAIN schema.optional = DOMAIN gql_type.fields

\* C5: into_jddf of a Scalar node never panics and returns int32 for Int,
\* float64 for Float, boolean for Boolean, string for String and ID, and the
\* empty form for every other name.
C5_ScalarTable ==
    (pc \in {"returned", "panic_into_jddf"} /\ gql_type.tag = "Scalar") =>
        /\ pc = "returned"
        /\ gql_type.name = "Int" => schema = FormType("int32")
        /\ gql_type.name = "Float" => schema = FormType("float64")
        /\ gql_type.name = "Boolean" => schema = FormType("boolean")
        /\ gql_type.name = "String" => schema = FormType("string")
        /\ gql_type.name = "ID" => schema = FormType("string")
        /\ gql_type.name \notin {"Int", "Float", "Boolean", "String", "ID"} =>
             schema = FormEmpty

C5_Witness ==
    /\ pc = "returned"
    /\ gql_type = Scalar("ID")
    /\ schema = FormType("string")

\* C7, as stated: every member of a built Interface or Union node is a bare Ref.
C7_Original ==
    (pc = "into_jddf" /\ gql_type.tag \in {"Interface", "Union"}) =>
        \A t \in Range(IF gql_type.tag = "Interface" THEN gql_type.impls
                       ELSE gql_type.types) : t.tag = "Ref"

\* C7, amended: building an INTERFACE or UNION descriptor fails only when one
\* of its possible-type chains fails to resolve; otherwise the members are the
\* resolved chains in order, a member being a bare Ref exactly when the
\* outermost link of its chain carries a name and a NonNull or List otherwise.
C7_Amended ==
    [][(/\ pc = "from_full_type"
        /\ full_type.kind \in {"INTERFACE", "UNION"}
        /\ is_some(full_type.name)
        /\ is_some(full_type.possible_types)) =>
          LET ps == unwrap(full_type.possible_types)
              members == IF full_type.kind = "INTERFACE" THEN gql_type'.impls
                         ELSE gql_type'.types
          IN  IF \E i \in 1..Len(ps) : IsPanic(from_type_ref(ps[i]))
              THEN IsPanic(gql_type')
              ELSE /\ gql_type'.tag =
                        (IF full_type.kind = "INTERFACE" THEN "Interface" ELSE "Union")
                   /\ gql_type'.name = unwrap(full_type.name)
                   /\ Len(members) = Len(ps)
                   /\ \A i \in 1..Len(ps) :
                         /\ members[i] = from_type_ref(ps[i])
                         /\ members[i].tag = "Ref" <=> is_some(ps[i][1].name)
                         /\ members[i].tag \in {"Ref", "NonNull", "List"}]_vars

C7_Witness ==
    /\ pc = "into_jddf"
    /\ gql_type.tag = "Union"
    /\ Len(gql_type.types) = 2
    /\ gql_type.types[1].tag = "Ref"
    /\ gql_type.types[2].tag = "NonNull"

\* C9: a call of into_jddf on List(NonNull(inner)) returns
\* elements(into_jddf(inner)), panicking exactly when into_jddf(inner) does; on
\* List(x) with x no NonNull it returns elements(empty) and never panics.
C9_ListTranslation ==
    (pc \in {"returned", "panic_into_jddf"} /\ gql_type.tag = "List") =>
        IF gql_type.inner.tag = "NonNull"
        THEN IF IsSchemaPanic(into_jddf(gql_type.inner.inner))
             THEN pc = "panic_into_jddf"
             ELSE /\ pc = "returned"
                  /\ schema = [form |-> "Elements",
                               schema |-> into_jddf(gql_type.inner.inner)]
        ELSE /\ pc = "returned"
             /\ schema = [form |-> "Elements", schema |-> [form |-> "Empty"]]

C9_Witness ==
    /\ pc = "returned"
    /\ gql_type = List(List(NonNull(NonNull(Ref("String")))))
    /\ IsSchemaPanic(into_jddf(gql_type.inner))
    /\ schema = FormElements(FormEmpty)

====
